---- MODULE Spec2Model ----
(***************************************************************************)
(* Self-extracting package builder (pack-files.js, class FilePacker) and   *)
(* the extractor program it generates (the template literal returned by    *)
(* FilePacker.generateExtractor).                                          *)
(*                                                                         *)
(* Six state machines share this module:                                   *)
(*   SpecSelect  - selectDirectory() of the generated extractor, up to the *)
(*                 directory check at the head of extractFiles();          *)
(*   SpecExtract - extractFiles() from the creation of the target          *)
(*                 directory to process exit;                              *)
(*   SpecBuild   - main() / FilePacker.packFiles() of the builder;         *)
(*   SpecConcurrent - two runs of one built extractor and the staged copy  *)
(*                 each of them makes in os.tmpdir();                      *)
(*   SpecBuilds  - two builds started on one output directory;             *)
(*   SpecPackage - main() of the app packager (package-exe.js, class       *)
(*                 ExecutablePackager).                                    *)
(*                                                                         *)
(* File names are sequences of tokens (a token is a run of characters), so *)
(* that String.replace, path.parse and the reading of a quoted literal are *)
(* computed and not assumed.                                               *)
(***************************************************************************)
EXTENDS Naturals, Sequences, FiniteSets, TLC

VARIABLES
  \* ---- generated extractor: selectDirectory ----
  pc,              \* control point of the extractor process
  existingRoots,   \* which of the conventional roots exist on disk
  guiResult,       \* value returned by showNativeFolderDialog
  promptCalls,     \* how many times getInteractiveInput has been entered
  promptOutcome,   \* what each getInteractiveInput call met, in call order
  tierLog,         \* tiers of the selection chain, in the order they ran
  helperFiles,     \* temp helper files currently on disk
  extractDir,      \* const extractDir = selectDirectory()
  \* ---- generated extractor: extractFiles ----
  archiveFileName, \* the sidecar name compiled into the extractor
  cwd,             \* process.cwd()
  diskFiles,       \* archive-like files on disk (paths <<dir, name>>)
  targetExists,    \* the chosen target directory exists
  madeDirs,        \* directories this run created with fs.mkdirSync
  archivePath,     \* the resolved sidecar
  probed,          \* paths handed to fs.existsSync during resolution
  errorMessage,    \* message of the error that reached the outer catch
  tempExists,      \* the staged copy tempArchivePath exists
  staged,          \* the staging copy has been made in this run
  destArchive,     \* <extractDir>/extracted_files.zip exists
  zipEntries,      \* file entries of the sidecar archive, in archive order
  targetFiles,     \* files under the target: records [path, content]
  extractedCount,  \* <<n>> once a tier has set extractedCount, <<>> before
  fileOps,         \* operations on archive files, in order: [op, path]
  log,             \* tiers attempted and user-visible reports, in order
  exitCode,        \* <<n>> once process.exit(n) is scheduled, <<>> before
  \* ---- builder: main / FilePacker.packFiles ----
  bpc,             \* control point of the build process
  requestAppName,  \* options["app-name"] || config.appName (<<>> when none)
  files,           \* options.files
  folders,         \* options.folders
  srcExists,       \* listed source paths that exist at build time
  outputName,      \* options.outputName (<<>> when not given)
  appName,         \* this.config.appName
  includeVersion,  \* this.config.includeVersion
  tempDir,         \* <outputDir>/temp-package exists
  workArchive,     \* entries of temp-package/files.zip, in a set of 0 or 1
  extractorJs,     \* text of the archiveFileName literal in extractor.js
  exeFiles,        \* names of executables written to the output directory
  compiledName,    \* sidecar name the compiled extractor holds
  sidecars,        \* sidecar archives in the output directory
  raised,          \* error raised by the first build stage that failed
  rejected,        \* error packFiles' promise was rejected with
  blog,            \* build stages entered and lines reported, in order
  \* ---- two concurrent runs of one built extractor ----
  buildStamp,      \* Date.now() at the time generateExtractor ran
  runClock,        \* Date.now() of each run when it reaches line 472
  rpc,             \* control point of each run
  tmpFiles,        \* files in os.tmpdir(): records [path, by]
  \* ---- two builds on one output directory ----
  bstate,          \* control point of each build
  breq,            \* each build's options: [files, folders, outputName]
  tempPackage,     \* <outputDir>/temp-package exists
  filesZip,        \* entries of temp-package/files.zip, in a set of 0 or 1
  extractorFile,   \* archiveFileName literal of temp-package/extractor.js
  shipped,         \* sidecars in the output directory: [name, entries]
  shippedExe,      \* executables in the output directory: [name, sidecar]
  bfail,           \* the error each build ended with
  \* ---- app packager: main of package-exe.js ----
  kpc,             \* control point of the packager process
  pkgType,         \* args[0]
  configFile,      \* "none", "ok" or "unreadable": the --config option
  fileConfig,      \* what the configuration file holds: [appName, version]
  config,          \* this.config: [appName, version]
  outputDir,       \* "absent", "existed" or "created"
  invoked,         \* packaging methods invoked, in order
  pkgError,        \* the error thrown in the packager, "none" when none
  pkgExit,         \* <<n>> once the process ends with code n
  pkgLog           \* lines the packager reported, in order

selVars == <<existingRoots, guiResult, promptCalls, promptOutcome, tierLog,
             helperFiles>>
extVars == <<archiveFileName, cwd, diskFiles, targetExists, madeDirs, archivePath,
             probed, errorMessage, tempExists, staged, destArchive,
             zipEntries, targetFiles, extractedCount, fileOps>>
runVars == <<pc, extractDir, log, exitCode>>
reqVars == <<files, folders, srcExists, outputName, appName, includeVersion,
             requestAppName>>
outVars == <<tempDir, workArchive, extractorJs, exeFiles, compiledName,
             sidecars>>
bldVars == <<bpc, reqVars, outVars, raised, rejected, blog>>
cbVars == <<bstate, breq, tempPackage, filesZip, extractorFile, shipped,
            shippedExe, bfail>>
pkgVars == <<kpc, pkgType, configFile, fileConfig, config, outputDir, invoked,
             pkgError, pkgExit, pkgLog>>
conVars == <<buildStamp, runClock, rpc, tmpFiles, cbVars, pkgVars>>

----------------------------------------------------------------------------
(* Values *)

NULL == "null"          \* JavaScript null / undefined
NoPath == <<>>

\* !v for the values a path variable can hold
Falsy(v) == v \in {NULL, ""}

\* s.indexOf of one token: 0 when absent
IndexOf(s, tok) ==
  IF \E i \in 1..Len(s) : s[i] = tok
    THEN CHOOSE i \in 1..Len(s) : s[i] = tok /\ \A j \in 1..(i-1) : s[j] # tok
    ELSE 0

\* String.prototype.replace with a string pattern: the first occurrence only
Replace(s, tok, rep) ==
  LET i == IndexOf(s, tok)
  IN IF i = 0 THEN s
     ELSE SubSeq(s, 1, i-1) \o rep \o SubSeq(s, i+1, Len(s))

Contains(s, x) == \E i \in 1..Len(s) : s[i] = x

\* index of the first occurrence of x in s, 0 when absent
FirstIndex(s, x) == IndexOf(s, x)

Before(s, x, y) ==
  /\ Contains(s, x)
  /\ Contains(s, y)
  /\ FirstIndex(s, x) < FirstIndex(s, y)

----------------------------------------------------------------------------
(* Directory selection chain *)

DesktopPath == "Desktop"   \* path.join(os.homedir(), 'Desktop'), %USERPROFILE%\Desktop

\* possiblePaths of getSmartDefaultPath, in source order
possiblePaths ==
  << DesktopPath, "SteamX86", "Steam", "EpicX86", "Epic", "Games", "MyGames" >>

Roots == { possiblePaths[i] : i \in 1..Len(possiblePaths) }

\* mutant: the last candidate that exists is returned, not the first
SmartLoop_LastMatch(i, fs) ==
  IF \E j \in i..Len(possiblePaths) : possiblePaths[j] \in fs
    THEN possiblePaths[CHOOSE j \in i..Len(possiblePaths) :
                         /\ possiblePaths[j] \in fs
                         /\ \A k \in (j + 1)..Len(possiblePaths) :
                              possiblePaths[k] \notin fs]
    ELSE DesktopPath

\* the for loop of lines 399-404 and the fallback of lines 406-409
RECURSIVE SmartLoop(_, _)
SmartLoop(i, fs) ==
  IF i > Len(possiblePaths) THEN DesktopPath
  ELSE IF possiblePaths[i] \in fs THEN possiblePaths[i]
  ELSE SmartLoop(i + 1, fs)

\* mutant: the final unconditional fallback is missing
getSmartDefaultPath_NoFallback(fs) ==
  IF \E i \in 1..Len(possiblePaths) : possiblePaths[i] \in fs
    THEN SmartLoop(1, fs)
    ELSE NULL

getSmartDefaultPath(fs) == SmartLoop(1, fs)

\* mutant: the prompt script writes the submitted line as it is
batchResult_NoDefault(input) == input

\* lines 335-345 of the prompt script: empty input is replaced by the desktop
batchResult(input) == IF input = "" THEN DesktopPath ELSE input

VbsFile == <<"vbs", 0>>
BatchFile(k) == <<"bat", k>>
ResultFile(k) == <<"res", k>>

\* What the native dialog subprocess and the filesystem calls around it do
DialogOutcomes ==
  [ write : BOOLEAN,         \* fs.writeFileSync(tempVbsFile) returns
    exec : BOOLEAN,          \* cscript exits 0 within the timeout
    out : {"", "DialogPath", DesktopPath},  \* trimmed stdout
    outExists : BOOLEAN,     \* fs.existsSync of a picked folder
    unlinkThrows : BOOLEAN ] \* fs.unlinkSync(tempVbsFile) throws

DialogPathExists(o, fs) ==
  IF o.out \in Roots THEN o.out \in fs ELSE o.outExists

\* Returns [ret, files]: the value returned and the helper files left behind
showNativeFolderDialog(o, fs) ==
  IF ~o.write THEN [ret |-> NULL, files |-> {}]
  ELSE IF ~o.exec THEN [ret |-> NULL, files |-> {VbsFile}]
  ELSE IF o.unlinkThrows THEN [ret |-> NULL, files |-> {VbsFile}]
  ELSE IF o.out # "" /\ DialogPathExists(o, fs)
    THEN [ret |-> o.out, files |-> {}]
    ELSE [ret |-> NULL, files |-> {}]

\* What the prompt subprocess and the filesystem calls around it do
\* (fields that the call never reads in a given outcome are held at one value)
PromptOutcomes ==
  { o \in
      [ write : BOOLEAN,              \* fs.writeFileSync(batchFile) returns
        exec : BOOLEAN,               \* the batch file exits 0
        input : {"", "UserPath"},     \* the line the user submits
        resultWritten : BOOLEAN,      \* the script reached echo > resultFile
        unlinkTryThrows : BOOLEAN,    \* unlinkSync throws at lines 364-365
        unlinkCatchThrows : BOOLEAN ] \* unlinkSync throws at lines 380-381
      : /\ (~o.write => o.exec /\ ~o.resultWritten /\ ~o.unlinkCatchThrows)
        /\ (~o.resultWritten => o.input = "")
        /\ (~(o.exec /\ o.resultWritten) => ~o.unlinkTryThrows)
        /\ (o.exec /\ ~o.unlinkTryThrows => ~o.unlinkCatchThrows) }

\* Returns [threw, ret, files, tier]: whether the call threw, the value it
\* returned, the helper files left behind and the tier that gave the value
getInteractiveInput(o, fs, k) ==
  LET afterExec == {BatchFile(k)} \cup
                   (IF o.resultWritten THEN {ResultFile(k)} ELSE {})
      catch(onDisk) ==
        IF onDisk # {} /\ o.unlinkCatchThrows
          THEN [threw |-> TRUE, ret |-> NULL, files |-> onDisk, tier |-> "prompt"]
          ELSE [threw |-> FALSE, ret |-> getSmartDefaultPath(fs),
                files |-> {}, tier |-> "default"]
  IN IF ~o.write THEN catch({})
     ELSE IF ~o.exec THEN catch(afterExec)
     ELSE IF o.resultWritten
       THEN IF o.unlinkTryThrows THEN catch(afterExec)
            ELSE IF ~Falsy(batchResult(o.input))
              THEN [threw |-> FALSE, ret |-> batchResult(o.input),
                    files |-> {}, tier |-> "prompt"]
              ELSE [threw |-> FALSE, ret |-> getSmartDefaultPath(fs),
                    files |-> {}, tier |-> "default"]
       ELSE [threw |-> FALSE, ret |-> getSmartDefaultPath(fs),
             files |-> {BatchFile(k)}, tier |-> "default"]

NoError == [kind |-> "none", tried |-> <<>>]

\* selectDirectory, lines 148-156: the native dialog tier
SelectDirectoryNative ==
  /\ pc = "selectDirectory"
  /\ \E o \in DialogOutcomes :
       LET r == showNativeFolderDialog(o, existingRoots)
       IN /\ guiResult' = r.ret
          /\ helperFiles' = helperFiles \cup r.files
          /\ tierLog' = Append(tierLog, "native")
          /\ IF ~Falsy(r.ret)
               THEN extractDir' = r.ret /\ pc' = "checkDir"
               ELSE extractDir' = extractDir /\ pc' = "interactive"
  /\ UNCHANGED <<existingRoots, promptCalls, promptOutcome, log, exitCode>>
  /\ UNCHANGED <<extVars, bldVars, conVars>>

\* selectDirectory, lines 158-166: the text prompt, entered at line 160 and,
\* when that call throws, once more from the catch block at line 165
SelectDirectoryInteractive ==
  /\ pc = "interactive"
  /\ \E o \in PromptOutcomes :
       LET k == promptCalls + 1
           r == getInteractiveInput(o, existingRoots, k)
       IN /\ promptCalls' = k
          /\ promptOutcome' = Append(promptOutcome, o)
          /\ helperFiles' = helperFiles \cup r.files
          /\ tierLog' = tierLog \o <<"prompt">> \o
                         (IF r.tier = "default" THEN <<"default">> ELSE <<>>)
          /\ IF r.threw
               THEN /\ extractDir' = extractDir
                    /\ IF k = 1
                         THEN pc' = "interactive" /\ errorMessage' = errorMessage
                         ELSE /\ pc' = "outerCatch"
                              /\ errorMessage' = [kind |-> "unlink", tried |-> <<>>]
               ELSE /\ extractDir' = r.ret
                    /\ pc' = "checkDir"
                    /\ errorMessage' = errorMessage
  /\ UNCHANGED <<existingRoots, guiResult, log, exitCode>>
  /\ UNCHANGED <<archiveFileName, cwd, diskFiles, targetExists, madeDirs,
                 archivePath, probed, tempExists, staged, destArchive, zipEntries,
                 targetFiles, extractedCount, fileOps>>
  /\ UNCHANGED <<bldVars, conVars>>

\* getInteractiveInput, lines 354-357: the batch file is written and
\* execSync, called without a timeout option, waits for it; the script waits
\* at  set /p  for a line, so with a user who submits none the call does not
\* return
PromptBlocks ==
  /\ pc = "interactive"
  /\ pc' = "waitingForInput"
  /\ helperFiles' = helperFiles \cup {BatchFile(promptCalls + 1)}
  /\ tierLog' = Append(tierLog, "prompt")
  /\ UNCHANGED <<existingRoots, guiResult, promptCalls, promptOutcome,
                 extractDir, log, exitCode>>
  /\ UNCHANGED <<extVars, bldVars, conVars>>

\* extractFiles, lines 416-421
CheckExtractDir ==
  /\ pc = "checkDir"
  /\ IF Falsy(extractDir)
       THEN pc' = "noDir" /\ log' = Append(log, "noDirectory")
       ELSE pc' = "mkdir" /\ log' = log
  /\ UNCHANGED <<extractDir, exitCode>>
  /\ UNCHANGED <<selVars, bldVars, conVars>>
  /\ UNCHANGED extVars

\* extractFiles, lines 683-687: the outer catch
OuterCatch ==
  /\ pc = "outerCatch"
  /\ log' = Append(log, "msgFailed")
  /\ exitCode' = <<1>>
  /\ pc' = "exited"
  /\ UNCHANGED extractDir
  /\ UNCHANGED <<selVars, bldVars, conVars>>
  /\ UNCHANGED extVars

\* the builder is not part of an extractor run
BuildIdle ==
  /\ bpc = "idle"
  /\ files = <<>>
  /\ folders = <<>>
  /\ srcExists = {}
  /\ outputName = <<>>
  /\ appName = <<>>
  /\ requestAppName = <<>>
  /\ includeVersion = TRUE
  /\ tempDir = FALSE
  /\ workArchive = {}
  /\ extractorJs = {}
  /\ exeFiles = {}
  /\ compiledName = {}
  /\ sidecars = {}
  /\ raised = "none"
  /\ rejected = "none"
  /\ blog = <<>>

ExtractIdle ==
  /\ archiveFileName = <<>>
  /\ cwd = "exeDir"
  /\ diskFiles = {}
  /\ targetExists = FALSE
  /\ madeDirs = {}
  /\ archivePath = NoPath
  /\ probed = <<>>
  /\ errorMessage = NoError
  /\ tempExists = FALSE
  /\ staged = FALSE
  /\ destArchive = FALSE
  /\ zipEntries = <<>>
  /\ targetFiles = {}
  /\ extractedCount = <<>>
  /\ fileOps = <<>>

Runs == {"runA", "runB"}

\* the moment generateExtractor rendered the template of the extractor
BuildTime == "t0"

\* no second run of the extractor is under way
ConcurrentIdle ==
  /\ buildStamp = BuildTime
  /\ runClock = [r \in Runs |-> "t1"]
  /\ rpc = [r \in Runs |-> "idle"]
  /\ tmpFiles = {}

Builds == {"buildA", "buildB"}

NoRequest == [files |-> <<>>, folders |-> <<>>, outputName |-> <<>>]

BuildsIdle ==
  /\ bstate = [b \in Builds |-> "idle"]
  /\ breq = [b \in Builds |-> NoRequest]
  /\ tempPackage = FALSE
  /\ filesZip = {}
  /\ extractorFile = {}
  /\ shipped = {}
  /\ shippedExe = {}
  /\ bfail = [b \in Builds |-> "none"]

NoConfig == [appName |-> NULL, version |-> NULL]

PackagerIdle ==
  /\ kpc = "idle"
  /\ pkgType = "node"
  /\ configFile = "none"
  /\ fileConfig = NoConfig
  /\ config = NoConfig
  /\ outputDir = "absent"
  /\ invoked = <<>>
  /\ pkgError = "none"
  /\ pkgExit = <<>>
  /\ pkgLog = <<>>

InitSelect ==
  /\ pc = "selectDirectory"
  /\ existingRoots \in SUBSET Roots
  /\ guiResult = NULL
  /\ promptCalls = 0
  /\ promptOutcome = <<>>
  /\ tierLog = <<>>
  /\ helperFiles = {}
  /\ extractDir = NULL
  /\ log = <<>>
  /\ exitCode = <<>>
  /\ ExtractIdle
  /\ BuildIdle
  /\ ConcurrentIdle
  /\ BuildsIdle
  /\ PackagerIdle

NextSelect ==
  \/ SelectDirectoryNative
  \/ SelectDirectoryInteractive
  \/ PromptBlocks
  \/ CheckExtractDir
  \/ OuterCatch

vars == <<selVars, extVars, runVars, bldVars, conVars>>

SpecSelect == InitSelect /\ [][NextSelect]_vars

\* the extractor process keeps running while it has a step to take
SpecSelectFair == SpecSelect /\ WF_vars(NextSelect)

----------------------------------------------------------------------------
(* Directory selection: claims *)

LastPrompt == promptOutcome[promptCalls]

\* the prompt script took an empty line from the user and wrote its result
EmptyInputSubmitted ==
  /\ promptCalls >= 1
  /\ LastPrompt.resultWritten
  /\ LastPrompt.input = ""

\* C4: whenever selectDirectory returns, the value is a non-empty path, and
\* extractFiles never takes its 'No extraction directory specified' branch.
C4_SelectDirectoryNonEmpty ==
  /\ pc \in {"checkDir", "mkdir", "noDir"} => ~Falsy(extractDir)
  /\ pc # "noDir"
  /\ ~Contains(log, "noDirectory")

\* C4 witness: both interactive tiers gave nothing, no conventional root
\* exists, and selectDirectory has returned through the final fallback.
C4_Witness ==
  /\ pc = "mkdir"
  /\ guiResult = NULL
  /\ existingRoots = {}
  /\ Contains(tierLog, "default")
  /\ extractDir = DesktopPath

Count(s, x) == Cardinality({ i \in 1..Len(s) : s[i] = x })

\* C21: within one call of selectDirectory the tiers run in the order native
\* dialog, text prompt, smart default; the prompt runs only after the native
\* dialog gave no result; no tier runs after the native dialog produced the
\* returned path; and no tier runs more than once.
C21_TiersInOrderAtMostOnce ==
  /\ Count(tierLog, "native") <= 1
  /\ Count(tierLog, "prompt") <= 1
  /\ Count(tierLog, "default") <= 1
  /\ Contains(tierLog, "prompt") =>
        (Before(tierLog, "native", "prompt") /\ Falsy(guiResult))
  /\ Contains(tierLog, "default") => Before(tierLog, "prompt", "default")
  /\ ~Falsy(guiResult) => tierLog = <<"native">>

\* C22: the selection chain terminates even if the user never responds:
\* every run eventually leaves selectDirectory.
C22_SelectionTerminates ==
  <>(pc \notin {"selectDirectory", "interactive", "waitingForInput"})

\* C23: a non-empty path the user entered at the text prompt is the path
\* selectDirectory returns, whether or not it exists on disk.
C23_EnteredPathIsTarget ==
  ( /\ pc = "checkDir"
    /\ promptCalls >= 1
    /\ LastPrompt.resultWritten
    /\ LastPrompt.input = "UserPath" )
  => extractDir = "UserPath"

\* selectDirectory has returned the value of the smart-default tier
SmartDefaultReturned ==
  /\ pc = "checkDir"
  /\ tierLog # <<>>
  /\ tierLog[Len(tierLog)] = "default"

\* C24: getSmartDefaultPath returns the first candidate of its ordered list
\* that exists, and the desktop path when no candidate exists.
C24_SmartDefaultFirstExisting ==
  SmartDefaultReturned =>
    /\ \A i \in 1..Len(possiblePaths) :
         ( /\ possiblePaths[i] \in existingRoots
           /\ \A j \in 1..(i - 1) : possiblePaths[j] \notin existingRoots )
         => extractDir = possiblePaths[i]
    /\ existingRoots = {} => extractDir = DesktopPath

\* C24 witness: the desktop is missing, two later roots exist, the earlier of
\* the two is returned.
C24_Witness ==
  /\ SmartDefaultReturned
  /\ existingRoots = {"Steam", "Games"}
  /\ extractDir = "Steam"

\* C34: when selectDirectory returns, every helper file the tiers created
\* (dialog script, prompt batch file, prompt result file) has been deleted.
C34_HelperFilesDeleted ==
  pc \in {"checkDir", "mkdir", "noDir"} => helperFiles = {}

----------------------------------------------------------------------------
(* Builder: archive *)

RECURSIVE FileEntries_UniqueNames(_, _)
\* mutant: a listed file is dropped when a later listed file has its base name
FileEntries_UniqueNames(fl, ex) ==
  IF fl = <<>> THEN <<>>
  ELSE (IF Head(fl) \in ex
           /\ ~\E i \in 2..Len(fl) : fl[i] \in ex /\ fl[i][2] = Head(fl)[2]
          THEN << [name |-> <<Head(fl)[2]>>, source |-> Head(fl)] >>
          ELSE <<>>)
       \o FileEntries_UniqueNames(Tail(fl), ex)

RECURSIVE FileEntries(_, _)
\* lines 96-102: one entry per listed file that exists, named by its base name
FileEntries(fl, ex) ==
  IF fl = <<>> THEN <<>>
  ELSE (IF Head(fl) \in ex
          THEN << [name |-> <<Head(fl)[2]>>, source |-> Head(fl)] >>
          ELSE <<>>)
       \o FileEntries(Tail(fl), ex)

\* files found under a folder, as paths relative to it
FolderContent(folder) == << <<"a.png">>, <<"sub", "b.txt">> >>

\* mutant: folder content is rooted at the archive root, not under the
\* folder's base name
DirectoryEntries_Rootless(folder) ==
  [ i \in 1..Len(FolderContent(folder)) |->
      [ name |-> FolderContent(folder)[i],
        source |-> <<folder[1], folder[2]>> \o FolderContent(folder)[i] ] ]

DirectoryEntries(folder) ==
  [ i \in 1..Len(FolderContent(folder)) |->
      [ name |-> <<folder[2]>> \o FolderContent(folder)[i],
        source |-> <<folder[1], folder[2]>> \o FolderContent(folder)[i] ] ]

RECURSIVE FolderEntries(_, _)
\* lines 105-111: every file under a listed folder that exists
FolderEntries(fo, ex) ==
  IF fo = <<>> THEN <<>>
  ELSE (IF Head(fo) \in ex THEN DirectoryEntries(Head(fo)) ELSE <<>>)
       \o FolderEntries(Tail(fo), ex)

\* createArchive, lines 95-113: the entries handed to the archiver
createArchive(fl, fo, ex) == FileEntries(fl, ex) \o FolderEntries(fo, ex)

ReadmeInSrc == <<"src", "readme.txt">>
ReadmeInDocs == <<"docs", "readme.txt">>
AssetsFolder == <<".", "assets">>

FileLists == { <<>>, <<ReadmeInSrc>>, <<ReadmeInDocs>>, <<ReadmeInSrc, ReadmeInDocs>> }
FolderLists == { <<>>, <<AssetsFolder>> }

Listed(fl, fo) ==
  { fl[i] : i \in 1..Len(fl) } \cup { fo[i] : i \in 1..Len(fo) }

----------------------------------------------------------------------------
(* Extraction engine: archive resolution *)

ExeDir == "exeDir"            \* path.dirname(process.execPath)
ArchiveSuffix == "_archive.zip"

\* mutant: only the compiled-in name is tried
possibleNames_OnlyExpected(afn) == << afn >>

\* possibleNames, lines 447-453
possibleNames(afn) ==
  << afn,
     Replace(afn, ArchiveSuffix, <<".zip">>),
     Replace(afn, ArchiveSuffix, <<"_files.zip">>),
     <<"files", ".zip">>,
     <<"archive", ".zip">> >>

\* the for loop of lines 456-464: index of the first name that exists, or 0
RECURSIVE FirstExistingName(_, _, _)
FirstExistingName(names, i, fs) ==
  IF i > Len(names) THEN 0
  ELSE IF <<ExeDir, names[i]>> \in fs THEN i
  ELSE FirstExistingName(names, i + 1, fs)

\* mutant: the working directory is looked at before the executable's
resolveArchive_CwdFirst(afn, wd, fs) ==
  LET inExe == <<ExeDir, afn>>
      inCwd == <<wd, afn>>
  IN IF inCwd \in fs
       THEN [found |-> TRUE, path |-> inCwd, probed |-> <<inCwd>>, tried |-> <<>>]
       ELSE IF inExe \in fs
         THEN [found |-> TRUE, path |-> inExe, probed |-> <<inCwd, inExe>>,
               tried |-> <<>>]
         ELSE [found |-> FALSE, path |-> inExe, probed |-> <<inCwd, inExe>>,
               tried |-> <<inExe, inCwd>>]

\* Archive resolution, lines 431-470.  Returns [found, path, probed, tried]:
\* probed lists the paths given to fs.existsSync in call order, tried the
\* paths named in the message of the error thrown at line 467.
resolveArchive(afn, wd, fs) ==
  LET inExe == <<ExeDir, afn>>
      inCwd == <<wd, afn>>
      names == possibleNames(afn)
      k == FirstExistingName(names, 1, fs)
      upTo(n) == [i \in 1..n |-> <<ExeDir, names[i]>>]
  IN IF inExe \in fs
       THEN [found |-> TRUE, path |-> inExe, probed |-> <<inExe>>, tried |-> <<>>]
       ELSE IF inCwd \in fs
         THEN [found |-> TRUE, path |-> inCwd, probed |-> <<inExe, inCwd>>,
               tried |-> <<>>]
         ELSE IF k > 0
           THEN [found |-> TRUE, path |-> <<ExeDir, names[k]>>,
                 probed |-> <<inExe, inCwd>> \o upTo(k), tried |-> <<>>]
           ELSE [found |-> FALSE, path |-> inExe,
                 probed |-> <<inExe, inCwd>> \o upTo(Len(names)),
                 tried |-> <<inExe, inCwd>>]

\* extractFiles, lines 423-428: create the target directory when absent
CreateExtractDir ==
  /\ pc = "mkdir"
  /\ targetExists' = TRUE
  /\ madeDirs' = IF targetExists THEN madeDirs ELSE madeDirs \cup {extractDir}
  /\ pc' = "resolve"
  /\ UNCHANGED <<extractDir, log, exitCode>>
  /\ UNCHANGED <<selVars, bldVars, conVars>>
  /\ UNCHANGED <<archiveFileName, cwd, diskFiles, archivePath, probed,
                 errorMessage, tempExists, staged, destArchive, zipEntries,
                 targetFiles, extractedCount, fileOps>>

\* mutant: a failed resolution records its error and goes on to staging
ResolveArchive_Continue ==
  /\ pc = "resolve"
  /\ LET r == resolveArchive(archiveFileName, cwd, diskFiles)
     IN /\ probed' = r.probed
        /\ archivePath' = r.path
        /\ pc' = "stage"
        /\ errorMessage' = IF r.found THEN errorMessage
                           ELSE [kind |-> "ArchiveNotFound", tried |-> r.tried]
  /\ UNCHANGED <<extractDir, log, exitCode>>
  /\ UNCHANGED <<selVars, bldVars, conVars>>
  /\ UNCHANGED <<archiveFileName, cwd, diskFiles, targetExists, madeDirs, tempExists,
                 staged, destArchive, zipEntries, targetFiles, extractedCount,
                 fileOps>>

\* extractFiles, lines 430-470
ResolveArchive ==
  /\ pc = "resolve"
  /\ LET r == resolveArchive(archiveFileName, cwd, diskFiles)
     IN /\ probed' = r.probed
        /\ archivePath' = r.path
        /\ IF r.found
             THEN pc' = "stage" /\ errorMessage' = errorMessage
             ELSE /\ pc' = "outerCatch"
                  /\ errorMessage' = [kind |-> "ArchiveNotFound", tried |-> r.tried]
  /\ UNCHANGED <<extractDir, log, exitCode>>
  /\ UNCHANGED <<selVars, bldVars, conVars>>
  /\ UNCHANGED <<archiveFileName, cwd, diskFiles, targetExists, madeDirs, tempExists,
                 staged, destArchive, zipEntries, targetFiles, extractedCount,
                 fileOps>>

----------------------------------------------------------------------------
(* Extraction engine: staging, tiers, verification, cleanup *)

\* The generated program requires fs, path, os and child_process only
\* (lines 122-125), so the test typeof AdmZip !== 'undefined' of line 493
\* is false in every run.
AdmZipAvailable == FALSE

PrimaryOutcomes == IF AdmZipAvailable THEN {"extracted", "threw"} ELSE {"threw"}

frameTiers == <<archiveFileName, cwd, diskFiles, targetExists, madeDirs, archivePath,
                probed, zipEntries>>

\* Writing the entries of an archive under the target, in archive order
\* (fs.writeFileSync of line 510, Expand-Archive -Force of lines 556 and 580):
\* a file already at the entry's path is overwritten.  The content of a file
\* is identified by the source path it was read from.
RECURSIVE writeEntries(_, _)
writeEntries(entries, tree) ==
  IF entries = <<>> THEN tree
  ELSE writeEntries(Tail(entries),
         { f \in tree : f.path # Head(entries).name }
           \cup { [path |-> Head(entries).name, content |-> Head(entries).source] })

\* lines 587-588 and 605-606: fs.readdirSync(extractDir).length, the number
\* of names directly under the target
readdirLength(tree) == Cardinality({ f.path[1] : f \in tree })

\* a file that was in the target before the run
OldFile == [path |-> <<"old.txt">>, content |-> <<"target", "old.txt">>]

TmpDir == "tmpdir"            \* os.tmpdir()

\* line 472: 'temp-extract-${Date.now()}.zip'.  Inside the template literal
\* of generateExtractor this ${...} is not escaped (unlike the \${...} of the
\* helper-file names of lines 280 and 308), so it is evaluated while the
\* builder renders the template and the generated program holds the rendered
\* digits; the clock of the run does not enter the name.
tempArchiveName(buildNow, runNow) == <<"temp-extract-", buildNow, ".zip">>

tempArchivePath(buildNow, runNow) == <<TmpDir, tempArchiveName(buildNow, runNow)>>

\* tempArchivePath and destArchive of the run SpecExtract follows
TempArchivePath == tempArchivePath(buildStamp, "t1")
DestArchivePath == <<extractDir, <<"extracted_files", ".zip">>>>

Op(o, p) == [op |-> o, path |-> p]

\* extractFiles, lines 472-477: copy the resolved archive to tempArchivePath
StageCopy ==
  /\ pc = "stage"
  /\ \E ok \in BOOLEAN :
       IF ok
         THEN /\ tempExists' = TRUE
              /\ staged' = TRUE
              /\ log' = Append(log, "staged")
              /\ fileOps' = fileOps \o << Op("read", archivePath),
                                          Op("write", TempArchivePath) >>
              /\ pc' = "primary"
              /\ errorMessage' = errorMessage
         ELSE /\ pc' = "outerCatch"
              /\ errorMessage' = [kind |-> "copyFile", tried |-> <<>>]
              /\ UNCHANGED <<tempExists, staged, log, fileOps>>
  /\ UNCHANGED <<extractDir, exitCode, destArchive, targetFiles,
                 extractedCount>>
  /\ UNCHANGED <<selVars, bldVars, conVars>>
  /\ UNCHANGED frameTiers

\* extractFiles, lines 491-527: the in-process tier and its catch
PrimaryTier ==
  /\ pc = "primary"
  /\ \E r \in PrimaryOutcomes :
       IF r = "extracted"
         THEN /\ log' = Append(log, "primary")
              /\ targetFiles' = writeEntries(zipEntries, targetFiles)
              /\ extractedCount' = <<Len(zipEntries)>>
              /\ fileOps' = Append(fileOps, Op("read", TempArchivePath))
              /\ pc' = "verify"
         ELSE /\ log' = log \o <<"primary", "primaryFailed">>
              /\ pc' = "ps1"
              /\ UNCHANGED <<targetFiles, extractedCount, fileOps>>
  /\ UNCHANGED <<extractDir, exitCode, errorMessage, tempExists, staged,
                 destArchive>>
  /\ UNCHANGED <<selVars, bldVars, conVars>>
  /\ UNCHANGED frameTiers

\* mutant: Expand-Archive is pointed at the sidecar, not at the staged copy
SimplePowerShell_OnSidecar ==
  /\ pc = "ps1"
  /\ fileOps' = Append(fileOps, Op("read", archivePath))
  /\ \E ok \in BOOLEAN :
       IF ok
         THEN /\ log' = Append(log, "ps1")
              /\ targetFiles' = writeEntries(zipEntries, targetFiles)
              /\ extractedCount' = <<readdirLength(targetFiles')>>
              /\ pc' = "verify"
         ELSE /\ log' = log \o <<"ps1", "ps1Failed">>
              /\ pc' = "ps2"
              /\ UNCHANGED <<targetFiles, extractedCount>>
  /\ UNCHANGED <<extractDir, exitCode, errorMessage, tempExists, staged,
                 destArchive>>
  /\ UNCHANGED <<selVars, bldVars, conVars>>
  /\ UNCHANGED frameTiers

\* extractFiles, lines 577-594: first external invocation (Expand-Archive)
SimplePowerShell ==
  /\ pc = "ps1"
  /\ fileOps' = Append(fileOps, Op("read", TempArchivePath))
  /\ \E ok \in BOOLEAN :
       IF ok
         THEN /\ log' = Append(log, "ps1")
              /\ targetFiles' = writeEntries(zipEntries, targetFiles)
              /\ extractedCount' = <<readdirLength(targetFiles')>>
              /\ pc' = "verify"
         ELSE /\ log' = log \o <<"ps1", "ps1Failed">>
              /\ pc' = "ps2"
              /\ UNCHANGED <<targetFiles, extractedCount>>
  /\ UNCHANGED <<extractDir, exitCode, errorMessage, tempExists, staged,
                 destArchive>>
  /\ UNCHANGED <<selVars, bldVars, conVars>>
  /\ UNCHANGED frameTiers

\* extractFiles, lines 595-611: second external invocation (detailed script)
DetailedPowerShell ==
  /\ pc = "ps2"
  /\ fileOps' = Append(fileOps, Op("read", TempArchivePath))
  /\ \E ok \in BOOLEAN :
       IF ok
         THEN /\ log' = Append(log, "ps2")
              /\ targetFiles' = writeEntries(zipEntries, targetFiles)
              /\ extractedCount' = <<readdirLength(targetFiles')>>
              /\ pc' = "verify"
         ELSE /\ log' = log \o <<"ps2", "ps2Failed">>
              /\ pc' = "lastResort"
              /\ UNCHANGED <<targetFiles, extractedCount>>
  /\ UNCHANGED <<extractDir, exitCode, errorMessage, tempExists, staged,
                 destArchive>>
  /\ UNCHANGED <<selVars, bldVars, conVars>>
  /\ UNCHANGED frameTiers

\* extractFiles, lines 615-661: report, re-list the target, delete the staged
\* copy; a throwing fs.statSync leaves through the catch of line 663
VerifyAndCleanup ==
  /\ pc = "verify"
  /\ \E listed \in BOOLEAN :
       IF listed
         THEN /\ log' = log \o <<"msgExtracted", "cleanup">>
              /\ tempExists' = FALSE
              /\ fileOps' = Append(fileOps, Op("unlink", TempArchivePath))
              /\ pc' = "final"
         ELSE /\ log' = log \o <<"msgExtracted", "verifyFailed">>
              /\ tempExists' = tempExists
              /\ fileOps' = fileOps
              /\ pc' = "lastResort"
  /\ UNCHANGED <<extractDir, exitCode, errorMessage, staged, destArchive,
                 targetFiles, extractedCount>>
  /\ UNCHANGED <<selVars, bldVars, conVars>>
  /\ UNCHANGED frameTiers

\* mutant: the archive is not copied, the instructions are still shown
LastResortCopy_NoCopy ==
  /\ pc = "lastResort"
  /\ log' = log \o <<"lastResortCopy", "msgManualExtraction">>
  /\ pc' = "final"
  /\ UNCHANGED <<extractDir, exitCode, errorMessage, tempExists, staged,
                 destArchive, targetFiles, extractedCount, fileOps>>
  /\ UNCHANGED <<selVars, bldVars, conVars>>
  /\ UNCHANGED frameTiers

\* extractFiles, lines 663-672: copy the staged archive into the target
LastResortCopy ==
  /\ pc = "lastResort"
  /\ \E ok \in BOOLEAN :
       IF ok
         THEN /\ destArchive' = TRUE
              /\ log' = log \o <<"lastResortCopy", "msgManualExtraction">>
              /\ fileOps' = fileOps \o << Op("read", TempArchivePath),
                                          Op("write", DestArchivePath) >>
              /\ pc' = "final"
              /\ errorMessage' = errorMessage
         ELSE /\ destArchive' = destArchive
              /\ log' = log \o <<"lastResortCopy", "lastResortThrew">>
              /\ fileOps' = Append(fileOps, Op("read", TempArchivePath))
              /\ pc' = "outerCatch"
              /\ errorMessage' = [kind |-> "copyFile", tried |-> <<>>]
  /\ UNCHANGED <<extractDir, exitCode, tempExists, staged, targetFiles,
                 extractedCount>>
  /\ UNCHANGED <<selVars, bldVars, conVars>>
  /\ UNCHANGED frameTiers

\* extractFiles, lines 674-681: final message and process.exit(0)
FinalMessage ==
  /\ pc = "final"
  /\ log' = Append(log, "msgCompleted")
  /\ exitCode' = <<0>>
  /\ pc' = "exited"
  /\ UNCHANGED extractDir
  /\ UNCHANGED <<selVars, bldVars, conVars>>
  /\ UNCHANGED extVars

MaxSidecarFiles == 2   \* at most this many archive-like files are on disk

Stems == { <<"Pkg">>, <<"files">> }

ArchiveFileNames == { stem \o <<ArchiveSuffix>> : stem \in Stems }

WorkingDirs == { ExeDir, "cwdDir" }

\* names under which an archive-like file may lie on disk
NameUniverse(afn) ==
  { afn, Replace(afn, ArchiveSuffix, <<".zip">>),
    Replace(afn, ArchiveSuffix, <<"_files.zip">>),
    <<"files", ".zip">>, <<"archive", ".zip">> }

SelectIdle ==
  /\ existingRoots = {}
  /\ guiResult = NULL
  /\ promptCalls = 0
  /\ promptOutcome = <<>>
  /\ tierLog = <<>>
  /\ helperFiles = {}

\* extractFiles after selectDirectory has returned a target
InitExtract ==
  /\ pc = "mkdir"
  /\ extractDir \in {DesktopPath, "UserPath"}
  /\ targetExists \in BOOLEAN
  /\ madeDirs = {}
  /\ archiveFileName \in ArchiveFileNames
  /\ cwd \in WorkingDirs
  /\ diskFiles \in { S \in SUBSET ({ExeDir, cwd} \X NameUniverse(archiveFileName)) :
                       Cardinality(S) <= MaxSidecarFiles }
  /\ archivePath = NoPath
  /\ probed = <<>>
  /\ errorMessage = NoError
  /\ tempExists = FALSE
  /\ staged = FALSE
  /\ destArchive = FALSE
  /\ zipEntries \in { createArchive(fl, fo, Listed(fl, fo)) :
                         fl \in FileLists, fo \in FolderLists }
  /\ targetFiles \in {{}} \cup (IF targetExists THEN {{OldFile}} ELSE {})
  /\ extractedCount = <<>>
  /\ fileOps = <<>>
  /\ log = <<>>
  /\ exitCode = <<>>
  /\ SelectIdle
  /\ BuildIdle
  /\ ConcurrentIdle
  /\ BuildsIdle
  /\ PackagerIdle

NextExtract ==
  \/ CreateExtractDir
  \/ ResolveArchive
  \/ StageCopy
  \/ PrimaryTier
  \/ SimplePowerShell
  \/ DetailedPowerShell
  \/ VerifyAndCleanup
  \/ LastResortCopy
  \/ FinalMessage
  \/ OuterCatch

SpecExtract == InitExtract /\ [][NextExtract]_vars

----------------------------------------------------------------------------
(* Extraction engine: claims *)

BothTiersFailed ==
  /\ Contains(log, "primaryFailed")
  /\ Contains(log, "ps1Failed")
  /\ Contains(log, "ps2Failed")

TerminalFailureReported ==
  Contains(log, "msgManualExtraction") \/ Contains(log, "msgFailed")

FirstTerminalReport ==
  IF Contains(log, "msgManualExtraction") THEN "msgManualExtraction"
  ELSE "msgFailed"

\* C1: once the staging copy has been made, the staged file is gone when the
\* run ends, whichever way the run ends.
C1_StagedCopyRemovedOnExit ==
  (pc = "exited" /\ staged) => ~tempExists

\* C2: when both tiers fail and the staged archive is copied into the target,
\* the run ends with a non-zero exit status and without the completion report.
C2_LastResortEndsInFailure ==
  (pc = "exited" /\ BothTiersFailed /\ destArchive)
    => /\ exitCode # <<0>>
       /\ ~Contains(log, "msgCompleted")

Candidates ==
  << <<ExeDir, archiveFileName>>,
     <<cwd, archiveFileName>>,
     <<ExeDir, Replace(archiveFileName, ArchiveSuffix, <<".zip">>)>>,
     <<ExeDir, Replace(archiveFileName, ArchiveSuffix, <<"_files.zip">>)>>,
     <<ExeDir, <<"files", ".zip">>>>,
     <<ExeDir, <<"archive", ".zip">>>> >>

AlternatePaths == { Candidates[i] : i \in 3..Len(Candidates) }

Resolved == pc \notin {"mkdir", "resolve"}

ResolutionFailed == errorMessage.kind = "ArchiveNotFound"

\* position of the group (a), (b) or (c) a probed path belongs to
Group(path) ==
  IF path = Candidates[1] THEN 1 ELSE IF path = Candidates[2] THEN 2 ELSE 3

\* C6: candidates are probed in the order (a) executable directory, (b)
\* working directory, (c) alternate guesses; the first candidate that exists
\* is selected; ArchiveNotFound is raised only when no candidate exists.
C6_ResolutionOrder ==
  Resolved =>
    /\ probed[1] = Candidates[1]
    /\ \A i \in 1..Len(probed) : \A j \in 1..Len(probed) :
         (i < j /\ probed[j] # Candidates[1])
           => Group(probed[i]) <= Group(probed[j])
    /\ \A i \in 1..Len(probed) : \E n \in 1..Len(Candidates) :
         probed[i] = Candidates[n]
    /\ ~ResolutionFailed =>
         \E n \in 1..Len(Candidates) :
           /\ archivePath = Candidates[n]
           /\ Candidates[n] \in diskFiles
           /\ \A m \in 1..(n - 1) : Candidates[m] \notin diskFiles
    /\ ResolutionFailed <=>
         \A n \in 1..Len(Candidates) : Candidates[n] \notin diskFiles
    /\ ResolutionFailed =>
         \A n \in 1..Len(Candidates) : Contains(probed, Candidates[n])

\* C6 witness: the sidecar is in both directories and the executable's
\* directory wins.
C6_Witness ==
  /\ Resolved
  /\ cwd # ExeDir
  /\ Candidates[1] \in diskFiles
  /\ Candidates[2] \in diskFiles
  /\ archivePath = Candidates[1]

\* C7: with the expected name missing from the executable's directory and
\* the working directory, and a file present under an alternate guess,
\* resolution succeeds and selects a file that exists under such a guess.
C7_AlternateNameResolves ==
  ( /\ Resolved
    /\ Candidates[1] \notin diskFiles
    /\ Candidates[2] \notin diskFiles
    /\ AlternatePaths \cap diskFiles # {} )
    => /\ ~ResolutionFailed
       /\ pc # "outerCatch" \/ errorMessage.kind # "ArchiveNotFound"
       /\ archivePath \in AlternatePaths \cap diskFiles

\* C7 witness: only the last guess, archive.zip, is present and is selected.
C7_Witness ==
  /\ pc = "stage"
  /\ Candidates[1] \notin diskFiles
  /\ Candidates[2] \notin diskFiles
  /\ diskFiles \cap AlternatePaths = { <<ExeDir, <<"archive", ".zip">>>> }
  /\ archivePath = <<ExeDir, <<"archive", ".zip">>>>

\* the target held no file when the run began (a file that was there is still
\* there: no entry is named old.txt)
TargetWasEmpty == OldFile \notin targetFiles

\* a tier has extracted the archive
Extracted == extractedCount # <<>>

\* C13: extracting a built archive into an empty directory yields exactly the
\* archive's relative paths, and every entry's file holds the content of the
\* source the entry was built from.
C13_RoundTrip ==
  (Extracted /\ TargetWasEmpty) =>
    /\ { f.path : f \in targetFiles } =
         { zipEntries[i].name : i \in 1..Len(zipEntries) }
    /\ \A i \in 1..Len(zipEntries) :
         [path |-> zipEntries[i].name, content |-> zipEntries[i].source]
           \in targetFiles

\* no two entries of the archive have the same name
DistinctEntryNames ==
  \A i, j \in 1..Len(zipEntries) :
    zipEntries[i].name = zipEntries[j].name => i = j

\* C14: after a successful extraction into an empty directory the reported
\* extracted count is the number of file entries of the archive (stated for
\* archives whose entries all have different names, where every entry is one
\* extracted file).
C14_ExtractedCountIsEntryCount ==
  (Extracted /\ TargetWasEmpty /\ DistinctEntryNames) =>
    extractedCount = <<Len(zipEntries)>>

\* C19: when archive resolution fails, the paths named in the error message
\* are exactly the paths whose existence was tested.
C19_MessageNamesEveryProbedPath ==
  ResolutionFailed =>
    { errorMessage.tried[i] : i \in 1..Len(errorMessage.tried) } =
    { probed[i] : i \in 1..Len(probed) }

\* C25: the external utility is invoked only after the primary tier raised
\* an error, its second variant only after the first invocation failed, each
\* at most once, and the last-resort copy is made only after the second
\* invocation failed.
C25_FallbackOnlyAfterFailure ==
  /\ Contains(log, "ps1") => Before(log, "primaryFailed", "ps1")
  /\ Contains(log, "ps2") => Before(log, "ps1Failed", "ps2")
  /\ Count(log, "ps1") <= 1
  /\ Count(log, "ps2") <= 1
  /\ Contains(log, "lastResortCopy") => Before(log, "ps2Failed", "lastResortCopy")

\* C27: after the staging copy no step reads, writes or deletes the original
\* sidecar: the staging copy is the only operation on it, every later
\* operation is on another file, and the sidecar is still on disk.
C27_SidecarUntouchedAfterStaging ==
  staged =>
    /\ fileOps[1] = Op("read", archivePath)
    /\ \A i \in 2..Len(fileOps) : fileOps[i].path # archivePath
    /\ archivePath \in diskFiles

\* C27 witness: a run in which both external invocations and the last-resort
\* copy worked on the staged copy has ended.
C27_Witness ==
  /\ pc = "exited"
  /\ staged
  /\ Contains(log, "ps2Failed")
  /\ destArchive
  /\ Len(fileOps) >= 6

TierMarks == {"staged", "primary", "ps1", "ps2", "lastResortCopy"}

\* C30: when archive resolution fails the run is terminal: nothing is
\* staged, no tier and no last-resort copy runs, nothing is written to the
\* target, the failure message is shown and the exit status is 1.
C30_ResolutionFailureIsTerminal ==
  ResolutionFailed =>
    /\ pc \in {"outerCatch", "exited"}
    /\ ~staged
    /\ ~tempExists
    /\ ~destArchive
    /\ fileOps = <<>>
    /\ extractedCount = <<>>
    /\ \A i \in 1..Len(log) : log[i] \notin TierMarks
    /\ pc = "exited" => (exitCode = <<1>> /\ log = <<"msgFailed">>)

\* C30 witness: no archive was found and the run has exited with status 1.
C30_Witness ==
  /\ ResolutionFailed
  /\ pc = "exited"
  /\ exitCode = <<1>>
  /\ Len(probed) > 2

\* C31: once a tier has extracted the archive, an error raised while the
\* target is re-listed does not change the outcome: no last-resort copy is
\* written, and the run ends as a success with the staged copy deleted.
C31_VerificationIsAdvisory ==
  Contains(log, "verifyFailed") =>
    /\ ~Contains(log, "lastResortCopy")
    /\ ~destArchive
    /\ pc \notin {"lastResort", "outerCatch"}
    /\ pc = "exited" => (exitCode = <<0>> /\ ~tempExists)

\* C33: a run that ends in ArchiveNotFound leaves the filesystem as it found
\* it: no staged copy, no archive operation, and no directory created.
C33_NotFoundLeavesFilesystem ==
  ResolutionFailed =>
    /\ ~tempExists
    /\ fileOps = <<>>
    /\ madeDirs = {}

----------------------------------------------------------------------------
(* Two concurrent runs of one built extractor: the staged copy *)

\* tempArchivePath as run r computes it at line 472
StagePath(r) == tempArchivePath(buildStamp, runClock[r])

StagedFileThere(r) == \E f \in tmpFiles : f.path = StagePath(r)

soloVars == <<selVars, extVars, runVars, bldVars, cbVars, pkgVars>>

\* lines 472-477 in run r: fs.copyFileSync(archivePath, tempArchivePath)
\* replaces whatever file is at that path
RunStage(r) ==
  /\ rpc[r] = "stage"
  /\ tmpFiles' = { f \in tmpFiles : f.path # StagePath(r) }
                   \cup { [path |-> StagePath(r), by |-> r] }
  /\ rpc' = [rpc EXCEPT ![r] = "extract"]
  /\ UNCHANGED <<buildStamp, runClock>>
  /\ UNCHANGED soloVars

\* lines 577-612 in run r: the external tool unpacks tempArchivePath; it
\* fails when no file is there
RunExtract(r) ==
  /\ rpc[r] = "extract"
  /\ \E ok \in (IF StagedFileThere(r) THEN BOOLEAN ELSE {FALSE}) :
       rpc' = [rpc EXCEPT ![r] = IF ok THEN "cleanup" ELSE "lastResort"]
  /\ UNCHANGED <<buildStamp, runClock, tmpFiles>>
  /\ UNCHANGED soloVars

\* lines 658-661 in run r: unlink tempArchivePath when it exists
RunCleanup(r) ==
  /\ rpc[r] = "cleanup"
  /\ tmpFiles' = { f \in tmpFiles : f.path # StagePath(r) }
  /\ rpc' = [rpc EXCEPT ![r] = "done"]
  /\ UNCHANGED <<buildStamp, runClock>>
  /\ UNCHANGED soloVars

\* lines 663-672 in run r: copy tempArchivePath into the target; the copy
\* throws when the staged file is gone
RunLastResort(r) ==
  /\ rpc[r] = "lastResort"
  /\ rpc' = [rpc EXCEPT ![r] = IF StagedFileThere(r) THEN "done" ELSE "failed"]
  /\ UNCHANGED <<buildStamp, runClock, tmpFiles>>
  /\ UNCHANGED soloVars

RunTimes == {"t1", "t2", "t3"}

\* both runs have resolved their sidecar and are about to stage it
InitConcurrent ==
  /\ buildStamp = BuildTime
  /\ runClock \in [Runs -> RunTimes]
  /\ rpc = [r \in Runs |-> "stage"]
  /\ tmpFiles = {}
  /\ pc = "idle"
  /\ extractDir = NULL
  /\ log = <<>>
  /\ exitCode = <<>>
  /\ SelectIdle
  /\ ExtractIdle
  /\ BuildIdle
  /\ BuildsIdle
  /\ PackagerIdle

NextConcurrent ==
  \E r \in Runs :
    \/ RunStage(r)
    \/ RunExtract(r)
    \/ RunCleanup(r)
    \/ RunLastResort(r)

SpecConcurrent == InitConcurrent /\ [][NextConcurrent]_vars

\* C26: two concurrent runs of one built extractor stage to different paths,
\* and while a run is extracting, the file at its staging path is the copy it
\* staged itself: the other run has neither overwritten nor deleted it.
C26_StagingIsPrivate ==
  \A r \in Runs :
    rpc[r] = "extract" =>
      /\ [path |-> StagePath(r), by |-> r] \in tmpFiles
      /\ \A q \in Runs \ {r} :
           rpc[q] # "stage" => StagePath(q) # StagePath(r)

----------------------------------------------------------------------------
(* Builder: names *)

Version == <<"1", ".", "0", ".", "0">>       \* config.version, "1.0.0"
InvalidChars == {":"}                        \* a character of [<>:"/\\|?*]
Whitespace == {" "}

Keep(s, drop) == SelectSeq(s, LAMBDA t : t \notin drop)

RECURSIVE SkipSpaces(_)
SkipSpaces(s) ==
  IF s # <<>> /\ Head(s) \in Whitespace THEN SkipSpaces(Tail(s)) ELSE s

\* .replace(/\s+/g, "_")
RECURSIVE CollapseSpaces(_)
CollapseSpaces(s) ==
  IF s = <<>> THEN <<>>
  ELSE IF Head(s) \in Whitespace
    THEN <<"_">> \o CollapseSpaces(SkipSpaces(Tail(s)))
    ELSE <<Head(s)>> \o CollapseSpaces(Tail(s))

\* the replace chain of lines 710-714 and 782-786 (after the third replace no
\* whitespace is left for trim to remove)
sanitize(s) == CollapseSpaces(Keep(Keep(s, InvalidChars), {"'"}))

\* generateOutputName, lines 779-788
generateOutputName(app, incl) ==
  sanitize(app) \o (IF incl THEN <<"-">> \o Version ELSE <<>>) \o <<".", "exe">>

LastDot(s) ==
  IF Contains(s, ".")
    THEN CHOOSE i \in 1..Len(s) :
           s[i] = "." /\ \A j \in (i + 1)..Len(s) : s[j] # "."
    ELSE 0

\* path.parse(s).name: the base name without its last extension; a leading
\* dot and the name ".." start no extension
parseName(s) ==
  IF LastDot(s) <= 1 \/ s = <<".", ".">> THEN s
  ELSE SubSeq(s, 1, LastDot(s) - 1)

\* line 50: outputName || this.generateOutputName()
outputFileName(out, app, incl) ==
  IF out # <<>> THEN out ELSE generateOutputName(app, incl)

\* lines 53 and 66: `${path.parse(outputFileName).name}_archive.zip`
sidecarFileName(ofn) == parseName(ofn) \o <<ArchiveSuffix>>

\* line 128 renders  const archiveFileName = '<text>';  the value the
\* JavaScript reader gives that literal ends at the first apostrophe
readSingleQuoted(text) ==
  IF Contains(text, "'") THEN SubSeq(text, 1, IndexOf(text, "'") - 1) ELSE text

----------------------------------------------------------------------------
(* Builder: main and packFiles *)

xVars == <<selVars, extVars, pc, extractDir, log, conVars>>

OutputFileName == outputFileName(outputName, appName, includeVersion)

DefaultAppName == <<"MyPackage">>

\* main, lines 862-885: merge the request into finalConfig, construct the
\* packer, create the output directory and call packFiles
Main ==
  /\ bpc = "main"
  /\ appName' = IF requestAppName # <<>> THEN requestAppName ELSE DefaultAppName
  /\ bpc' = "packFiles"
  /\ UNCHANGED <<files, folders, srcExists, outputName, includeVersion,
                 requestAppName>>
  /\ UNCHANGED <<outVars, raised, rejected, blog, exitCode>>
  /\ UNCHANGED xVars

\* packFiles, lines 37-43
PackFilesStart ==
  /\ bpc = "packFiles"
  /\ tempDir' = TRUE
  /\ blog' = Append(blog, "msgCreating")
  /\ bpc' = "archive"
  /\ UNCHANGED <<reqVars, workArchive, extractorJs, exeFiles, compiledName,
                 sidecars, raised, rejected, exitCode>>
  /\ UNCHANGED xVars

\* How the write of temp-package/files.zip ends: the output stream closes;
\* the archiver emits 'error' (line 89); or the output stream emits 'error',
\* for which createArchive registers no listener: depending on the stream
\* library the event is thrown as an uncaught exception, or it is absorbed by
\* the pipe and the following 'close' resolves the promise.
ArchiveOutcomes ==
  {"close", "archiverError", "streamErrorUncaught", "streamErrorClosed"}

\* packFiles lines 45-47 and createArchive, lines 79-115
CreateArchive ==
  /\ bpc = "archive"
  /\ \E o \in ArchiveOutcomes :
       IF o = "close"
         THEN /\ workArchive' = {createArchive(files, folders, srcExists)}
              /\ blog' = blog \o <<"archive", "msgArchiveCreated">>
              /\ bpc' = "generate"
              /\ UNCHANGED <<raised, rejected>>
       ELSE IF o = "archiverError"
         THEN /\ workArchive' = workArchive
              /\ blog' = blog \o <<"archive", "archiveFailed">>
              /\ raised' = "ArchiveError"
              /\ rejected' = "ArchiveError"
              /\ bpc' = "rejected"
       ELSE IF o = "streamErrorUncaught"
         THEN /\ workArchive' = workArchive
              /\ blog' = blog \o <<"archive", "archiveFailed">>
              /\ raised' = "StreamError"
              /\ rejected' = rejected
              /\ bpc' = "crashed"
         ELSE /\ workArchive' = workArchive
              /\ blog' = blog \o <<"archive", "archiveFailed", "msgArchiveCreated">>
              /\ raised' = "StreamError"
              /\ rejected' = rejected
              /\ bpc' = "generate"
  /\ UNCHANGED <<reqVars, tempDir, extractorJs, exeFiles, compiledName,
                 sidecars, exitCode>>
  /\ UNCHANGED xVars

\* packFiles, lines 49-56: generateExtractor and fs.writeFileSync
GenerateExtractor ==
  /\ bpc = "generate"
  /\ \E ok \in BOOLEAN :
       IF ok
         THEN /\ extractorJs' = {sidecarFileName(OutputFileName)}
              /\ blog' = Append(blog, "generate")
              /\ bpc' = "compile"
              /\ UNCHANGED <<raised, rejected>>
         ELSE /\ extractorJs' = extractorJs
              /\ blog' = blog \o <<"generate", "generateFailed">>
              /\ raised' = IF raised = "none" THEN "WriteError" ELSE raised
              /\ rejected' = "WriteError"
              /\ bpc' = "rejected"
  /\ UNCHANGED <<reqVars, tempDir, workArchive, exeFiles, compiledName,
                 sidecars, exitCode>>
  /\ UNCHANGED xVars

\* createExtractorExecutable, lines 699-747: a failing npm install is
\* swallowed, the pkg invocation is not; applyBranding changes nothing
CreateExtractorExecutable ==
  /\ bpc = "compile"
  /\ \E ok \in BOOLEAN :
       IF ok
         THEN /\ exeFiles' = exeFiles \cup {sanitize(OutputFileName)}
              /\ compiledName' = { readSingleQuoted(t) : t \in extractorJs }
              /\ blog' = Append(blog, "compile")
              /\ bpc' = "copy"
              /\ UNCHANGED <<raised, rejected>>
         ELSE /\ UNCHANGED <<exeFiles, compiledName>>
              /\ blog' = blog \o <<"compile", "compileFailed">>
              /\ raised' = IF raised = "none" THEN "CompileError" ELSE raised
              /\ rejected' = "CompileError"
              /\ bpc' = "rejected"
  /\ UNCHANGED <<reqVars, tempDir, workArchive, extractorJs, sidecars,
                 exitCode>>
  /\ UNCHANGED xVars

\* mutant: the working archive is moved, not copied, beside the executable
CopySidecar_Move ==
  /\ bpc = "copy"
  /\ workArchive # {}
  /\ sidecars' = sidecars \cup
        { [name |-> sidecarFileName(OutputFileName), entries |-> e] :
            e \in workArchive }
  /\ workArchive' = {}
  /\ blog' = Append(blog, "copy")
  /\ bpc' = "cleanup"
  /\ UNCHANGED <<reqVars, tempDir, extractorJs, exeFiles, compiledName,
                 raised, rejected, exitCode>>
  /\ UNCHANGED xVars

\* packFiles, lines 63-68: fs.copyFileSync(archivePath, finalArchivePath);
\* it throws when the working archive is not there
CopySidecar ==
  /\ bpc = "copy"
  /\ \E ok \in (IF workArchive = {} THEN {FALSE} ELSE BOOLEAN) :
       IF ok
         THEN /\ sidecars' = sidecars \cup
                     { [name |-> sidecarFileName(OutputFileName), entries |-> e] :
                         e \in workArchive }
              /\ blog' = Append(blog, "copy")
              /\ bpc' = "cleanup"
              /\ UNCHANGED <<raised, rejected>>
         ELSE /\ sidecars' = sidecars
              /\ blog' = blog \o <<"copy", "copyFailed">>
              /\ raised' = IF raised = "none" THEN "CopyError" ELSE raised
              /\ rejected' = "CopyError"
              /\ bpc' = "rejected"
  /\ UNCHANGED <<reqVars, tempDir, workArchive, extractorJs, exeFiles,
                 compiledName, exitCode>>
  /\ UNCHANGED xVars

\* packFiles lines 70-73 and cleanup, lines 793-797
CleanupAndReport ==
  /\ bpc = "cleanup"
  /\ tempDir' = FALSE
  /\ workArchive' = {}
  /\ extractorJs' = {}
  /\ blog' = blog \o <<"cleanup", "msgSuccess">>
  /\ bpc' = "resolved"
  /\ UNCHANGED <<reqVars, exeFiles, compiledName, sidecars, raised, rejected,
                 exitCode>>
  /\ UNCHANGED xVars

\* main, lines 885-888: the catch handler of packFiles' promise
MainCatch ==
  /\ bpc = "rejected"
  /\ blog' = Append(blog, "msgPackagingFailed")
  /\ exitCode' = <<1>>
  /\ bpc' = "exited"
  /\ UNCHANGED <<reqVars, outVars, raised, rejected>>
  /\ UNCHANGED xVars

MaxNameLen == 2     \* longest outputName, in tokens

NameTokens == {"My", "'", ".", " ", ":"}

OutputNames == UNION { [1..k -> NameTokens] : k \in 0..MaxNameLen }

AppNames == { <<"MyPackage">>, <<"Bob", "'", "s", " ", "Mod">> }

\* main has parsed the command line and read the configuration file
InitBuild ==
  /\ bpc = "main"
  /\ files \in FileLists
  /\ folders \in FolderLists
  /\ srcExists \in SUBSET Listed(files, folders)
  /\ outputName \in OutputNames
  /\ requestAppName \in AppNames \cup {<<>>}
  /\ appName = <<>>
  /\ includeVersion \in BOOLEAN
  /\ outputName # <<>> => requestAppName = DefaultAppName
  /\ tempDir = FALSE
  /\ workArchive = {}
  /\ extractorJs = {}
  /\ exeFiles = {}
  /\ compiledName = {}
  /\ sidecars = {}
  /\ raised = "none"
  /\ rejected = "none"
  /\ blog = <<>>
  /\ exitCode = <<>>
  /\ pc = "idle"
  /\ extractDir = NULL
  /\ log = <<>>
  /\ SelectIdle
  /\ ExtractIdle
  /\ ConcurrentIdle
  /\ BuildsIdle
  /\ PackagerIdle

NextBuild ==
  \/ Main
  \/ PackFilesStart
  \/ CreateArchive
  \/ GenerateExtractor
  \/ CreateExtractorExecutable
  \/ CopySidecar
  \/ CleanupAndReport
  \/ MainCatch

SpecBuild == InitBuild /\ [][NextBuild]_vars

----------------------------------------------------------------------------
(* Builder: claims *)

MissingListedFile == \E i \in 1..Len(files) : files[i] \notin srcExists

HasEntryFor(entries, path) ==
  \E j \in 1..Len(entries) : entries[j].source = path

ArchivesWritten == workArchive \cup { sc.entries : sc \in sidecars }

\* C8: when a listed file does not exist at build time, its entry is still
\* handed to the archive writer, so no archive is written without it, and the
\* build fails instead of reporting success.
C8_MissingFileIsFatal ==
  MissingListedFile =>
    /\ \A a \in ArchivesWritten :
         \A i \in 1..Len(files) : HasEntryFor(a, files[i])
    /\ ~Contains(blog, "msgSuccess")

\* C9: in every build that completes, the sidecar name the compiled extractor
\* holds is exactly the name under which the archive was copied to the output
\* directory.
C9_CompiledNameIsSidecarName ==
  bpc = "resolved" =>
    \A sc \in sidecars : compiledName = {sc.name}

StageMarks == {"archive", "generate", "compile", "copy", "cleanup"}
FailureMarks == {"archiveFailed", "generateFailed", "compileFailed", "copyFailed"}

FirstFailure ==
  CHOOSE i \in 1..Len(blog) :
    blog[i] \in FailureMarks /\ \A j \in 1..(i - 1) : blog[j] \notin FailureMarks

\* C10: when a build stage fails, no later stage runs, packFiles rejects with
\* the error that stage raised, no sidecar is copied after a failed compile
\* and no success line is reported.
C10_StageFailureAborts ==
  raised # "none" =>
    /\ rejected = raised
    /\ \A j \in (FirstFailure + 1)..Len(blog) : blog[j] \notin StageMarks
    /\ ~Contains(blog, "msgSuccess")
    /\ Contains(blog, "compileFailed") => sidecars = {}

\* C11: when a build stage fails after the temporary working directory was
\* created, the directory, its working archive and its extractor source are
\* gone when the build returns the error.
C11_CleanupRunsOnFailure ==
  bpc \in {"rejected", "exited"} =>
    /\ ~tempDir
    /\ workArchive = {}
    /\ extractorJs = {}

BuildStages == SelectSeq(blog, LAMBDA t : t \in StageMarks)

\* C12: a successful build runs archive, generate, compile, copy, cleanup in
\* this order and no other; between the copy and the cleanup the working
\* archive and the sidecar both exist with the same entries; after the
\* cleanup only one executable and one sidecar remain.
C12_StageOrderAndCopy ==
  /\ bpc = "cleanup" =>
        /\ tempDir
        /\ workArchive # {}
        /\ sidecars # {}
        /\ \A sc \in sidecars : sc.entries \in workArchive
  /\ bpc = "resolved" =>
        /\ BuildStages = <<"archive", "generate", "compile", "copy", "cleanup">>
        /\ ~tempDir
        /\ workArchive = {}
        /\ extractorJs = {}
        /\ Cardinality(exeFiles) = 1
        /\ Cardinality(sidecars) = 1

\* C12 witness: a build of one file and one folder has completed.
C12_Witness ==
  /\ bpc = "resolved"
  /\ \E sc \in sidecars : Len(sc.entries) = 3

\* number of source files a request resolves to: the listed files that exist
\* and the files under the listed folders that exist
RECURSIVE FilesUnder(_, _)
FilesUnder(fo, ex) ==
  IF fo = <<>> THEN 0
  ELSE (IF Head(fo) \in ex THEN Len(FolderContent(Head(fo))) ELSE 0)
       + FilesUnder(Tail(fo), ex)

ResolvableFiles ==
  Cardinality({ i \in 1..Len(files) : files[i] \in srcExists })
    + FilesUnder(folders, srcExists)

BaseName(path) == path[Len(path)]

\* C16: every listed file that exists is exactly one entry, named by its base
\* name alone; every file under a listed folder that exists is an entry named
\* by the folder's base name followed by the path relative to the folder.
C16_EntryNames ==
  \A a \in ArchivesWritten :
    /\ \A i \in 1..Len(files) :
         files[i] \in srcExists =>
           /\ Cardinality({ j \in 1..Len(a) : a[j].source = files[i] }) = 1
           /\ \A j \in 1..Len(a) :
                a[j].source = files[i] => a[j].name = <<BaseName(files[i])>>
    /\ \A k \in 1..Len(folders) :
         folders[k] \in srcExists =>
           \A m \in 1..Len(FolderContent(folders[k])) :
             \E j \in 1..Len(a) :
               /\ a[j].source = folders[k] \o FolderContent(folders[k])[m]
               /\ a[j].name =
                    <<BaseName(folders[k])>> \o FolderContent(folders[k])[m]

\* C16 witness: a file from a sub-directory lies at the archive root and a
\* nested folder file keeps its relative path under the folder's name.
C16_Witness ==
  \E a \in workArchive :
    /\ \E j \in 1..Len(a) :
         a[j].source = ReadmeInDocs /\ a[j].name = <<"readme.txt">>
    /\ \E j \in 1..Len(a) : a[j].name = <<"assets", "sub", "b.txt">>

\* t occurs in s as a run of consecutive tokens
HasInfix(s, t) ==
  \E i \in 0..(Len(s) - Len(t)) : SubSeq(s, i + 1, i + Len(t)) = t

\* C17: with includeVersion true the name of every executable the build
\* writes contains the configured version, whether the name was generated
\* from appName or an outputName was supplied.
C17_ExeNameContainsVersion ==
  includeVersion => \A exe \in exeFiles : HasInfix(exe, Version)

\* C18: a build whose appName is missing or empty does no build work: no
\* temporary directory, no archive, no extractor source, no compiler run.
C18_MissingAppNameRejected ==
  (requestAppName = <<>> /\ bpc # "idle") =>
    /\ ~tempDir
    /\ workArchive = {}
    /\ extractorJs = {}
    /\ exeFiles = {}
    /\ ~Contains(blog, "compile")

\* C20: when the output stream of the archive fails, createArchive's promise
\* is rejected and packFiles rejects with that error: the build does not
\* crash, stay pending or go on, and the archive stage is entered only once.
C20_StreamErrorRejects ==
  raised = "StreamError" =>
    /\ rejected = "StreamError"
    /\ bpc \in {"rejected", "exited"}
    /\ Cardinality({ i \in 1..Len(blog) : blog[i] = "archive" }) = 1

\* C28: in a completed build the sidecar's file name is the executable's file
\* name without its extension followed by _archive.zip, for every outputName
\* (stated for executables whose name is not empty).
C28_SidecarNamedAfterExecutable ==
  bpc = "resolved" =>
    \A exe \in exeFiles : \A sc \in sidecars :
      exe # <<>> => sc.name = parseName(exe) \o <<ArchiveSuffix>>

\* C29: for a request whose files and folders are both empty no build is
\* started: no temporary directory and no archive is created.
C29_EmptyRequestRejected ==
  (files = <<>> /\ folders = <<>> /\ bpc # "idle") =>
    /\ ~tempDir
    /\ workArchive = {}
    /\ ~Contains(blog, "archive")

----------------------------------------------------------------------------
(* Two builds started on one output directory *)

\* Each build is its own process running main() and packFiles().  Both use
\* one this.config.outputDir, so both use one <outputDir>/temp-package with
\* the fixed names files.zip and extractor.js (lines 40, 46, 55).  Every
\* subprocess and file operation succeeds when the file it needs is there:
\* the only failures in this machine are the ones a build causes the other.
restVars == <<selVars, extVars, runVars, bldVars, buildStamp, runClock, rpc,
              tmpFiles, pkgVars>>

OwnArchive(b) ==
  createArchive(breq[b].files, breq[b].folders,
                Listed(breq[b].files, breq[b].folders))

OwnSidecar(b) == sidecarFileName(breq[b].outputName)

\* packFiles, lines 37-43, in build b
BuildStart(b) ==
  /\ bstate[b] = "packFiles"
  /\ tempPackage' = TRUE
  /\ bstate' = [bstate EXCEPT ![b] = "archive"]
  /\ UNCHANGED <<breq, filesZip, extractorFile, shipped, shippedExe, bfail>>
  /\ UNCHANGED restVars

\* packFiles lines 45-47 and createArchive, lines 79-115, in build b:
\* fs.createWriteStream replaces the file at the path; it emits 'error'
\* when the directory is not there
BuildArchive(b) ==
  /\ bstate[b] = "archive"
  /\ IF tempPackage
       THEN /\ filesZip' = {OwnArchive(b)}
            /\ bstate' = [bstate EXCEPT ![b] = "generate"]
            /\ bfail' = bfail
       ELSE /\ filesZip' = filesZip
            /\ bstate' = [bstate EXCEPT ![b] = "failed"]
            /\ bfail' = [bfail EXCEPT ![b] = "StreamError"]
  /\ UNCHANGED <<breq, tempPackage, extractorFile, shipped, shippedExe>>
  /\ UNCHANGED restVars

\* packFiles, lines 49-56, in build b: fs.writeFileSync of extractor.js
BuildGenerate(b) ==
  /\ bstate[b] = "generate"
  /\ IF tempPackage
       THEN /\ extractorFile' = {OwnSidecar(b)}
            /\ bstate' = [bstate EXCEPT ![b] = "compile"]
            /\ bfail' = bfail
       ELSE /\ extractorFile' = extractorFile
            /\ bstate' = [bstate EXCEPT ![b] = "failed"]
            /\ bfail' = [bfail EXCEPT ![b] = "WriteError"]
  /\ UNCHANGED <<breq, tempPackage, filesZip, shipped, shippedExe>>
  /\ UNCHANGED restVars

\* createExtractorExecutable, lines 699-747, in build b: pkg compiles the
\* file that is at temp-package/extractor.js when it runs
BuildCompile(b) ==
  /\ bstate[b] = "compile"
  /\ IF extractorFile # {}
       THEN /\ shippedExe' =
                 { e \in shippedExe : e.name # sanitize(breq[b].outputName) }
                 \cup { [name |-> sanitize(breq[b].outputName),
                         sidecar |-> readSingleQuoted(t)] : t \in extractorFile }
            /\ bstate' = [bstate EXCEPT ![b] = "copy"]
            /\ bfail' = bfail
       ELSE /\ shippedExe' = shippedExe
            /\ bstate' = [bstate EXCEPT ![b] = "failed"]
            /\ bfail' = [bfail EXCEPT ![b] = "CompileError"]
  /\ UNCHANGED <<breq, tempPackage, filesZip, extractorFile, shipped>>
  /\ UNCHANGED restVars

\* packFiles, lines 63-68, in build b: fs.copyFileSync copies the file that
\* is at temp-package/files.zip; it throws when no file is there
BuildCopy(b) ==
  /\ bstate[b] = "copy"
  /\ IF filesZip # {}
       THEN /\ shipped' = { s \in shipped : s.name # OwnSidecar(b) }
                 \cup { [name |-> OwnSidecar(b), entries |-> e] : e \in filesZip }
            /\ bstate' = [bstate EXCEPT ![b] = "cleanup"]
            /\ bfail' = bfail
       ELSE /\ shipped' = shipped
            /\ bstate' = [bstate EXCEPT ![b] = "failed"]
            /\ bfail' = [bfail EXCEPT ![b] = "CopyError"]
  /\ UNCHANGED <<breq, tempPackage, filesZip, extractorFile, shippedExe>>
  /\ UNCHANGED restVars

\* packFiles lines 70-73 and cleanup, lines 793-797, in build b
BuildCleanup(b) ==
  /\ bstate[b] = "cleanup"
  /\ tempPackage' = FALSE
  /\ filesZip' = {}
  /\ extractorFile' = {}
  /\ bstate' = [bstate EXCEPT ![b] = "resolved"]
  /\ UNCHANGED <<breq, shipped, shippedExe, bfail>>
  /\ UNCHANGED restVars

BuildNames == { <<"Alpha", ".", "exe">>, <<"Beta", ".", "exe">> }

Requests ==
  [files : FileLists, folders : FolderLists, outputName : BuildNames]

\* both builds have parsed their command lines; their output names differ
InitBuilds ==
  /\ bstate = [b \in Builds |-> "packFiles"]
  /\ breq \in [Builds -> Requests]
  /\ breq["buildA"].outputName # breq["buildB"].outputName
  /\ tempPackage = FALSE
  /\ filesZip = {}
  /\ extractorFile = {}
  /\ shipped = {}
  /\ shippedExe = {}
  /\ bfail = [b \in Builds |-> "none"]
  /\ pc = "idle"
  /\ extractDir = NULL
  /\ log = <<>>
  /\ exitCode = <<>>
  /\ SelectIdle
  /\ ExtractIdle
  /\ BuildIdle
  /\ ConcurrentIdle
  /\ PackagerIdle

NextBuilds ==
  \E b \in Builds :
    \/ BuildStart(b)
    \/ BuildArchive(b)
    \/ BuildGenerate(b)
    \/ BuildCompile(b)
    \/ BuildCopy(b)
    \/ BuildCleanup(b)

SpecBuilds == InitBuilds /\ [][NextBuilds]_vars

\* C35: two builds running concurrently into one output directory with
\* different output names do not interfere: no build fails, while a build
\* still needs its working archive the file at temp-package/files.zip is the
\* one it wrote, and the sidecar a build ships holds exactly its own entries.
C35_ConcurrentBuildsIndependent ==
  \A b \in Builds :
    /\ bfail[b] = "none"
    /\ bstate[b] \in {"generate", "compile", "copy"} => filesZip = {OwnArchive(b)}
    /\ bstate[b] \in {"cleanup", "resolved"} =>
         \E s \in shipped : s.name = OwnSidecar(b) /\ s.entries = OwnArchive(b)

----------------------------------------------------------------------------
(* App packager: main() of package-exe.js and class ExecutablePackager *)

otherVars == <<selVars, extVars, runVars, bldVars, buildStamp, runClock, rpc,
               tmpFiles, cbVars>>

\* constructor, lines 15-23: the defaults, then ...config over them.  The
\* defaults hold a version and no appName; a key the file holds replaces
\* the default whatever its value
DefaultVersion == "1.0.0"

mergeConfig(c) ==
  [appName |-> c.appName,
   version |-> IF c.version = NULL THEN DefaultVersion ELSE c.version]

\* constructor, lines 25-30: the own keys of this.packageTypes
packageTypes == {"node", "electron", "python", "web"}

\* this.packageTypes is an object literal: a key it does not hold itself is
\* looked up on Object.prototype
ObjectPrototypeKeys == {"constructor", "toString", "hasOwnProperty", "__proto__"}

\* line 39: this.packageTypes[type]
lookupPackageMethod(type) ==
  IF type \in packageTypes THEN "packageMethod"
  ELSE IF type \in ObjectPrototypeKeys THEN "inherited"
  ELSE "undefined"

\* line 45 with an inherited value, called with no receiver: Object(options)
\* and Object.prototype.toString return; hasOwnProperty throws a TypeError
\* for its missing receiver; Object.prototype itself is not callable
callInherited(type) ==
  IF type \in {"constructor", "toString"} THEN "returns" ELSE "TypeError"

\* main, lines 316-325: read the file the --config option names
LoadConfig ==
  /\ kpc = "main"
  /\ IF configFile = "unreadable"
       THEN /\ pkgLog' = Append(pkgLog, "msgConfigLoadFailed")
            /\ pkgExit' = <<1>>
            /\ kpc' = "exited"
            /\ config' = config
       ELSE /\ config' = IF configFile = "ok" THEN fileConfig ELSE NoConfig
            /\ kpc' = "construct"
            /\ UNCHANGED <<pkgLog, pkgExit>>
  /\ UNCHANGED <<pkgType, configFile, fileConfig, outputDir, invoked, pkgError>>
  /\ UNCHANGED otherVars

\* main line 328 and the constructor, lines 14-31
Construct ==
  /\ kpc = "construct"
  /\ config' = mergeConfig(config)
  /\ kpc' = "validateConfig"
  /\ UNCHANGED <<pkgType, configFile, fileConfig, outputDir, invoked, pkgError,
                 pkgExit, pkgLog>>
  /\ UNCHANGED otherVars

\* main line 330 and validateConfig, lines 256-263: the throw is caught
\* nowhere, so the process ends with the uncaught error
ValidateConfig ==
  /\ kpc = "validateConfig"
  /\ IF Falsy(config.appName) \/ Falsy(config.version)
       THEN /\ pkgError' = "ConfigError"
            /\ pkgExit' = <<1>>
            /\ kpc' = "exited"
       ELSE /\ kpc' = "ensureOutputDir"
            /\ UNCHANGED <<pkgError, pkgExit>>
  /\ UNCHANGED <<pkgType, configFile, fileConfig, config, outputDir, invoked,
                 pkgLog>>
  /\ UNCHANGED otherVars

\* main line 331 and ensureOutputDir, lines 247-251
EnsureOutputDir ==
  /\ kpc = "ensureOutputDir"
  /\ outputDir' = IF outputDir = "absent" THEN "created" ELSE outputDir
  /\ kpc' = "package"
  /\ UNCHANGED <<pkgType, configFile, fileConfig, config, invoked, pkgError,
                 pkgExit, pkgLog>>
  /\ UNCHANGED otherVars

\* package, lines 36-42: the lookup and the test of its result
Package ==
  /\ kpc = "package"
  /\ pkgLog' = Append(pkgLog, "msgStarting")
  /\ IF lookupPackageMethod(pkgType) = "undefined"
       THEN /\ pkgError' = "Unsupported"
            /\ kpc' = "rejected"
       ELSE /\ pkgError' = pkgError
            /\ kpc' = "packageMethod"
  /\ UNCHANGED <<pkgType, configFile, fileConfig, config, outputDir, invoked,
                 pkgExit>>
  /\ UNCHANGED otherVars

\* package, lines 44-50: await packageMethod(options)
PackageMethod ==
  /\ kpc = "packageMethod"
  /\ IF lookupPackageMethod(pkgType) = "packageMethod"
       THEN /\ invoked' = Append(invoked, pkgType)
            /\ \E ok \in BOOLEAN :
                 IF ok
                   THEN /\ pkgLog' = Append(pkgLog, "msgSuccess")
                        /\ kpc' = "resolved"
                        /\ pkgError' = pkgError
                   ELSE /\ pkgLog' = Append(pkgLog, "msgPackagingFailed")
                        /\ kpc' = "rejected"
                        /\ pkgError' = "PackageError"
       ELSE /\ invoked' = invoked
            /\ IF callInherited(pkgType) = "returns"
                 THEN /\ pkgLog' = Append(pkgLog, "msgSuccess")
                      /\ kpc' = "resolved"
                      /\ pkgError' = pkgError
                 ELSE /\ pkgLog' = Append(pkgLog, "msgPackagingFailed")
                      /\ kpc' = "rejected"
                      /\ pkgError' = "TypeError"
  /\ UNCHANGED <<pkgType, configFile, fileConfig, config, outputDir, pkgExit>>
  /\ UNCHANGED otherVars

\* main, lines 333-336: the catch handler of package's promise
PackageCatch ==
  /\ kpc = "rejected"
  /\ pkgLog' = Append(pkgLog, "msgMainPackagingFailed")
  /\ pkgExit' = <<1>>
  /\ kpc' = "exited"
  /\ UNCHANGED <<pkgType, configFile, fileConfig, config, outputDir, invoked,
                 pkgError>>
  /\ UNCHANGED otherVars

PackageTypeArgs == packageTypes \cup ObjectPrototypeKeys \cup {"exe", "Node"}

ConfigValues == {NULL, "", "set"}

\* main has been started with at least one argument
InitPackage ==
  /\ kpc = "main"
  /\ pkgType \in PackageTypeArgs
  /\ configFile \in {"none", "ok", "unreadable"}
  /\ fileConfig \in [appName : ConfigValues, version : ConfigValues]
  /\ configFile # "ok" => fileConfig = NoConfig
  /\ config = NoConfig
  /\ outputDir \in {"absent", "existed"}
  /\ invoked = <<>>
  /\ pkgError = "none"
  /\ pkgExit = <<>>
  /\ pkgLog = <<>>
  /\ pc = "idle"
  /\ extractDir = NULL
  /\ log = <<>>
  /\ exitCode = <<>>
  /\ SelectIdle
  /\ ExtractIdle
  /\ BuildIdle
  /\ ConcurrentIdle
  /\ BuildsIdle

NextPackage ==
  \/ LoadConfig
  \/ Construct
  \/ ValidateConfig
  \/ EnsureOutputDir
  \/ Package
  \/ PackageMethod
  \/ PackageCatch

SpecPackage == InitPackage /\ [][NextPackage]_vars

PackageCalled == Contains(pkgLog, "msgStarting")

PackageSettled == kpc \in {"resolved", "rejected", "exited"}

\* C32: configuration validation precedes all work: when appName or version
\* is missing from the packager's configuration, validateConfig throws before
\* the output directory is created and before any packaging method is invoked;
\* and package() called with an unsupported type throws, with no packaging
\* method invoked.
C32_ValidationPrecedesWork ==
  /\ ( /\ kpc \notin {"main", "construct", "validateConfig"}
       /\ pkgLog # <<"msgConfigLoadFailed">>
       /\ Falsy(config.appName) \/ Falsy(config.version) )
     => /\ pkgError = "ConfigError"
        /\ outputDir # "created"
        /\ invoked = <<>>
  /\ (PackageCalled /\ PackageSettled /\ pkgType \notin packageTypes)
     => /\ pkgError # "none"
        /\ invoked = <<>>

====
